---------------------------- MODULE Spec2Model ----------------------------
(***************************************************************************)
(* The three museum scrapers (run_ukpuru.py, run_gijones.py,               *)
(* run_british_museum.py) as one state machine: discovery, asset fetch,    *)
(* cleaning / packaging, README and upload.                                *)
(*                                                                         *)
(* Strings the code inspects character by character (titles, URLs, file    *)
(* names) are sequences of one-character strings.                          *)
(***************************************************************************)
EXTENDS Integers, Sequences, FiniteSets, TLC

VARIABLES
    source,       \* which script runs: "ukpuru", "gijones", "british_museum"
    pc,           \* position of the script
    site,         \* what the remote source (or the CSV file) serves; never changes
    rawImg,       \* RAW_IMG_DIR / DIRS["images"]: file name -> file content
    cleanImg,     \* CLEAN_IMG_DIR / clean/images: file name -> file content
    rawJsonl,     \* RAW_JSONL: sequence of lines
    cleanJsonl,   \* CLEAN_JSONL / clean/data.jsonl: sequence of lines
    readme,       \* whether README.md has been written in this run
    loc,          \* local variables of the function being executed
    hist          \* history of the run (what was requested, what ran); never read by the code

vars == <<source, pc, site, rawImg, cleanImg, rawJsonl, cleanJsonl, readme, loc, hist>>

(***************************************************************************)
(* Bounds of the model                                                     *)
(***************************************************************************)
MaxLines == 2      \* lines of a raw metadata stream handed to run_cleaner
MaxImgs == 2       \* image references of one record of such a stream

(***************************************************************************)
(* Sequences and finite maps                                               *)
(***************************************************************************)
Range(s) == {s[i] : i \in 1..Len(s)}

SeqsUpTo(S, n) == UNION {[1..k -> S] : k \in 0..n}

Take(s, n) == SubSeq(s, 1, IF Len(s) < n THEN Len(s) ELSE n)

NoFiles == <<>>

Put(dir, name, content) ==
    [n \in (DOMAIN dir) \cup {name} |-> IF n = name THEN content ELSE dir[n]]

RECURSIVE SelectImgs(_, _)
SelectImgs(imgs, keep) ==
    IF imgs = <<>> THEN <<>>
    ELSE IF Head(imgs).file_name \in keep
         THEN <<Head(imgs)>> \o SelectImgs(Tail(imgs), keep)
         ELSE SelectImgs(Tail(imgs), keep)

(***************************************************************************)
(* Files and metadata lines                                                *)
(***************************************************************************)
\* A file's bytes: where they were downloaded from and what they are.
\*   "image"   a complete, decodable image
\*   "garbage" complete bytes that are no image (an error page, a truncated upload)
\*   "partial" the beginning of a body whose write was interrupted
FileBytes(url, kind) == [from |-> url, kind |-> kind]

\* Image.open(path) followed by img.verify(): raises unless the file decodes.
VerifyRaises(content) == content.kind # "image"

\* json.dumps(data) + "\n"
json_dumps(data) == [json |-> TRUE, data |-> data]

\* A stream that keeps the newest line first.
f_write_at_front(stream, line) == <<line>> \o stream

\* f.write(line + "\n") on a file opened for writing: the line goes to the end
f_write(stream, line) == Append(stream, line)

\* A line json.loads rejects.
MalformedLine == [json |-> FALSE]

\* json.loads(line) raises json.JSONDecodeError
json_loads_raises(line) == ~line.json

\* json.loads(line), for a line it accepts
json_loads(line) == line.data

(***************************************************************************)
(* The history of a run: what ran and what was asked of the network.       *)
(***************************************************************************)
NewRun(n) ==
    [run |-> n,               \* 1 for the first run of the script, 2 for a re-run
     stages |-> {},           \* the stage functions entered
     listed |-> {},           \* listing / category pages requested
     found |-> <<>>,          \* item locators in the order the crawl met them
     discovered |-> <<>>,     \* the list the discovery function returned
     attempted |-> {},        \* <<item, index>> of the assets the fetch stage reached
     requested |-> {},        \* asset URLs requested from the network
     failed |-> {},           \* <<item, index>> of the assets whose fetch or write failed
     emitted |-> <<>>,        \* the records the fetch stage has built, in order
     uploads |-> <<>>,        \* the outcome of each upload attempt, in order
     sleeps |-> 0,            \* the waits between upload attempts
     discoveryFailed |-> FALSE, \* the first listing page (or the CSV) was not there
     cleanFrom |-> <<>>]      \* for each clean line, the raw line it was made from


(***************************************************************************)
(* Strings: str.lower, str.replace, re.sub, slicing, os.path, urljoin      *)
(***************************************************************************)
UpperChars == <<"A", "B", "C", "D", "E", "F", "G", "H", "I", "J", "K", "L", "M", "N", "O", "P", "Q", "R", "S", "T", "U", "V", "W", "X", "Y", "Z">>
LowerChars == <<"a", "b", "c", "d", "e", "f", "g", "h", "i", "j", "k", "l", "m", "n", "o", "p", "q", "r", "s", "t", "u", "v", "w", "x", "y", "z">>
DigitChars == <<"0", "1", "2", "3", "4", "5", "6", "7", "8", "9">>

\* c.lower() for one character
LowerChar(c) ==
    IF \E i \in 1..Len(UpperChars) : UpperChars[i] = c
    THEN LowerChars[CHOOSE i \in 1..Len(UpperChars) : UpperChars[i] = c]
    ELSE c

\* s.lower()
Lower(s) == [i \in 1..Len(s) |-> LowerChar(s[i])]

\* the regular expression classes \w and \s
IsWordChar(c) == c \in Range(UpperChars) \cup Range(LowerChars) \cup Range(DigitChars) \cup {"_"}
IsSpaceChar(c) == c \in {" ", "\t", "\n", "\r"}

\* s.replace(a, b) for single characters a, b
ReplaceChar(s, a, b) == [i \in 1..Len(s) |-> IF s[i] = a THEN b ELSE s[i]]

\* re.sub(r'[^\w\s-]', '', s) (allowed = {"-"}), re.sub(r'[^\w\s.-]', '', s)
KeepChars(s, allowed) ==
    SelectSeq(s, LAMBDA c : IsWordChar(c) \/ IsSpaceChar(c) \/ c \in allowed)

\* re.sub(r'--+', '-', s): of every run of hyphens the first one stays
CollapseHyphens(s) ==
    LET marked == [i \in 1..Len(s) |->
                      [c |-> s[i], dup |-> i > 1 /\ s[i] = "-" /\ s[i - 1] = "-"]]
        kept == SelectSeq(marked, LAMBDA m : ~m.dup)
    IN  [i \in 1..Len(kept) |-> kept[i].c]

\* the slice bound of sanitize_filename: name[:100]
MaxNameLen == 100

\* run_ukpuru.sanitize_filename
ukpuru_sanitize_filename(name) ==
    Take(CollapseHyphens(KeepChars(ReplaceChar(Lower(name), " ", "-"), {"-"})),
         MaxNameLen)

\* run_gijones.sanitize_filename ("Allow dots")
gijones_sanitize_filename(name) ==
    Take(CollapseHyphens(KeepChars(ReplaceChar(Lower(name), " ", "-"), {"-", "."})),
         MaxNameLen)

\* positions of character c in s
Positions(s, c) == {i \in 1..Len(s) : s[i] = c}

SetMax(S) == CHOOSE x \in S : \A y \in S : y <= x
SetMin(S) == CHOOSE x \in S : \A y \in S : x <= y

\* s.split(c)[0]
BeforeFirst(s, c) ==
    IF Positions(s, c) = {} THEN s ELSE SubSeq(s, 1, SetMin(Positions(s, c)) - 1)

\* s.split(c)[-1]
AfterLast(s, c) ==
    IF Positions(s, c) = {} THEN s ELSE SubSeq(s, SetMax(Positions(s, c)) + 1, Len(s))

\* os.path.basename
basename(path) == AfterLast(path, "/")

\* os.path.splitext(path)[-1]: from the last dot of the last component, unless
\* only dots precede it there
splitext_ext(path) ==
    LET b == basename(path)
        dots == Positions(b, ".")
    IN  IF dots = {} THEN <<>>
        ELSE LET i == SetMax(dots) IN
             IF \E j \in 1..(i - 1) : b[j] # "." THEN SubSeq(b, i, Len(b)) ELSE <<>>

\* s.startswith(p)
StartsWith(s, p) == Len(s) >= Len(p) /\ SubSeq(s, 1, Len(p)) = p

\* s.endswith(p)
EndsWith(s, p) == Len(s) >= Len(p) /\ SubSeq(s, Len(s) - Len(p) + 1, Len(s)) = p

\* p in s
Contains(s, p) ==
    \E i \in 1..(Len(s) - Len(p) + 1) : SubSeq(s, i, i + Len(p) - 1) = p

\* f"{index:02d}"
Fmt02d(index) ==
    IF index < 10 THEN <<"0", DigitChars[index + 1]>>
    ELSE <<DigitChars[(index \div 10) + 1], DigitChars[(index % 10) + 1]>>

\* urllib.parse.urljoin, for the references the modelled pages hold: an absolute
\* URL replaces the base, an empty reference is the base, a reference starting
\* with "/" is resolved against the host, any other against the base's directory.
HttpScheme == <<"h", "t", "t", "p">>
SchemeEnd(url) == SetMin(Positions(url, ":")) + 2
HostEnd(url) ==
    LET later == {i \in Positions(url, "/") : i > SchemeEnd(url)} IN
    IF later = {} THEN Len(url) ELSE SetMin(later) - 1
DirEnd(url) ==
    LET later == {i \in Positions(url, "/") : i > SchemeEnd(url)} IN
    IF later = {} THEN 0 ELSE SetMax(later)
urljoin(base, ref) ==
    IF StartsWith(ref, HttpScheme) THEN ref
    ELSE IF ref = <<>> THEN base
    ELSE IF Head(ref) = "/" THEN SubSeq(base, 1, HostEnd(base)) \o ref
    ELSE IF DirEnd(base) = 0 THEN base \o <<"/">> \o ref
    ELSE SubSeq(base, 1, DirEnd(base)) \o ref

(***************************************************************************)
(* The environment: what the sources serve.  It is fixed for a behaviour   *)
(* (the source data does not change while the scripts run).                *)
(***************************************************************************)
NumPages == 3      \* listing pages of the blog
NumPosts == 2      \* posts of the blog
MaxLinks == 2      \* post links on one listing page
MaxFaults == 1     \* pages that do not load plus assets that do not download cleanly

\* No URL / no value (Python's None or ''; both are falsy)
None == <<>>

\* What a GET of an asset URL does.
\*   "image"      status 200, the body is a decodable image
\*   "garbage"    status 200, the body is no image
\*   "http_error" a non-2xx status, the body is an error page
\*   "timeout"    requests.get raises
\*   "io_error"   status 200, writing the body to disk fails part-way
FaultKinds == {"garbage", "http_error", "timeout", "io_error"}

PageUp(url) == url \notin site.down

AssetKind(url) == IF url \in DOMAIN site.bad THEN site.bad[url] ELSE "image"

\* The faults of a world: pages that are down and assets that go wrong.
Faults(pageUrls, assetUrls) ==
    {f \in [down : SUBSET pageUrls,
            bad : UNION {[A -> FaultKinds] : A \in SUBSET assetUrls}] :
        Cardinality(f.down) + Cardinality(DOMAIN f.bad) <= MaxFaults}

(***************************************************************************)
(* blog.ukpuru.org (host names are abbreviated)                            *)
(***************************************************************************)
ukpuru_BASE_URL == <<"h", "t", "t", "p", ":", "/", "/", "u">>
ukpuru_SOURCE_ID == <<"u", "k", "p", "u", "r", "u">>

\* The URL of listing page k; page 1 is BASE_URL.
ListingUrl(k) == IF k = 1 THEN ukpuru_BASE_URL
                 ELSE ukpuru_BASE_URL \o <<"/", "s", "?">> \o <<DigitChars[k + 1]>>
ListingUrls == {ListingUrl(k) : k \in 1..NumPages}

\* The URL of post k.  Posts 1 and 2 differ only in characters that
\* sanitize_filename removes.
PostUrl(k) ==
    IF k = 1 THEN ukpuru_BASE_URL \o <<"/", "p", "1">>
    ELSE IF k = 2 THEN ukpuru_BASE_URL \o <<"/", "p", ".", "1">>
    ELSE ukpuru_BASE_URL \o <<"/", "q">> \o <<DigitChars[k + 1]>>
PostUrls == {PostUrl(k) : k \in 1..NumPosts}

\* The page of post k: the text of its title tag (None: no title tag), whether it
\* has a div.post-body, and the src of each img tag in it (None: no src).
PostPage(k) ==
    IF k = 1 THEN [title |-> <<"A", " ", "b">>, body |-> TRUE,
                   imgs |-> <<<<"a", ".", "j", "p", "g">>, <<"/", "b", ".", "P", "N", "G", "?", "x", "=", "1">>>>]
    ELSE IF k = 2 THEN [title |-> <<"a", "-", "b", "!">>, body |-> TRUE,
                        imgs |-> <<<<"h", "t", "t", "p", ":", "/", "/", "v", "/", "c", ".", "p", "h", "p">>>>]
    ELSE IF k = 3 THEN [title |-> None, body |-> TRUE, imgs |-> <<None, <<"a", ".", "j", "p", "g">>>>]
    ELSE [title |-> <<DigitChars[k + 1]>>, body |-> FALSE, imgs |-> <<>>]

PostPageAt(url) == PostPage(CHOOSE k \in 1..NumPosts : PostUrl(k) = url)

ukpuru_AssetUrls ==
    UNION {{urljoin(ukpuru_BASE_URL, PostPage(k).imgs[j]) :
               j \in {i \in 1..Len(PostPage(k).imgs) : PostPage(k).imgs[i] # None}} :
              k \in 1..NumPosts}

\* The "older posts" links page k may carry: none, a link to the next page, a link
\* back to the first page (on the first page: to itself).
OlderLinks(k) ==
    {None, ListingUrl(1)} \cup (IF k < NumPages THEN {ListingUrl(k + 1)} ELSE {})

\* A page with no post links and no pager: what a URL nobody links to serves.
BlankPage == [links |-> <<>>, older |-> None]

RECURSIVE OfferedFrom(_, _, _)
\* The listing pages the blog offers: those the pager links lead to from url, a
\* page without post links being the last.
OfferedFrom(pages, url, seen) ==
    IF url \in seen THEN seen
    ELSE IF pages[url].links = <<>> \/ pages[url].older = None THEN seen \cup {url}
    ELSE OfferedFrom(pages, pages[url].older, seen \cup {url})

Offered(pages) == OfferedFrom(pages, ukpuru_BASE_URL, {})

\* The blogs the model runs against: any listing of the posts over the listing
\* pages, any pager link on each, and up to MaxFaults faults.
ukpuru_Sites ==
    {[pages |-> pg, down |-> f.down, bad |-> f.bad] :
        pg \in {p \in [ListingUrls -> [links : SeqsUpTo(PostUrls, MaxLinks),
                                       older : ListingUrls \cup {None}]] :
                   \A k \in 1..NumPages :
                      /\ p[ListingUrl(k)].older \in OlderLinks(k)
                      /\ ListingUrl(k) \notin Offered(p) => p[ListingUrl(k)] = BlankPage},
        f \in Faults(ListingUrls \cup PostUrls, ukpuru_AssetUrls)}

(***************************************************************************)
(* jonesarchive.siu.edu (host names are abbreviated)                       *)
(***************************************************************************)
MaxAnchors == 3    \* anchors of the photo-indexes/ page

gijones_BASE_URL == <<"h", "t", "t", "p", ":", "/", "/", "s", "i", "u", ".", "e", "d", "u", "/">>
gijones_SOURCE_ID == <<"g", "i", "j", "o", "n", "e", "s">>
index_page_url == urljoin(gijones_BASE_URL, <<"p", "h", "o", "t", "o", "-", "i", "n", "d", "e", "x", "e", "s", "/">>)

CategoryUrl(k) == index_page_url \o <<"c", DigitChars[k + 1], "/">>
CategoryUrls == {CategoryUrl(1), CategoryUrl(2)}

\* The anchors the index page may hold: a relative and an absolute link to a
\* category, a link to the biography, a link to the index itself, a link with no text.
AnchorKinds ==
    {[href |-> <<"c", "1", "/">>, text |-> <<"x">>],
     [href |-> CategoryUrl(2), text |-> <<"y">>],
     [href |-> <<"/", "j", "o", "n", "e", "s", "-", "b", "i", "o", "g", "r", "a", "p", "h", "y", "/">>, text |-> <<"b">>],
     [href |-> <<"/", "p", "h", "o", "t", "o", "-", "i", "n", "d", "e", "x", "e", "s", "/">>, text |-> <<"i">>],
     [href |-> <<"c", "2", "/">>, text |-> <<>>]}

\* The gallery items of a category page: the href of the item's image link (None:
\* the item has no link) and its caption (None: no caption tag).  Both pages show
\* m/a.jpg; n/a.jpg is another image with the same base name.
GalleryItems(url) ==
    IF url = CategoryUrl(1)
    THEN <<[href |-> <<"h", "t", "t", "p", ":", "/", "/", "s", "i", "u", ".", "e", "d", "u", "/", "m", "/", "a", ".", "j", "p", "g">>, caption |-> <<"M">>],
           [href |-> None, caption |-> <<"N">>]>>
    ELSE <<[href |-> <<"h", "t", "t", "p", ":", "/", "/", "s", "i", "u", ".", "e", "d", "u", "/", "n", "/", "a", ".", "j", "p", "g", "?", "v", "=", "2">>, caption |-> None],
           [href |-> <<"h", "t", "t", "p", ":", "/", "/", "s", "i", "u", ".", "e", "d", "u", "/", "m", "/", "a", ".", "j", "p", "g">>, caption |-> <<"M">>]>>

gijones_AssetUrls ==
    UNION {{GalleryItems(c)[j].href :
               j \in {i \in 1..Len(GalleryItems(c)) : GalleryItems(c)[i].href # None}} :
              c \in CategoryUrls}

gijones_Sites ==
    {[anchors |-> a, down |-> f.down, bad |-> f.bad, token |-> t] :
        a \in SeqsUpTo(AnchorKinds, MaxAnchors),
        f \in Faults({index_page_url} \cup CategoryUrls, gijones_AssetUrls),
        t \in BOOLEAN}

(***************************************************************************)
(* british_museum.csv and the museum's media server                        *)
(***************************************************************************)
MaxRows == 2       \* rows of the CSV file

\* A cell pandas read as a float NaN (an empty cell): not a str
NaN == <<"NaN">>

bm_SOURCE_ID == <<"b", "r", "i", "t", "i", "s", "h", "_", "m", "u", "s", "e", "u", "m">>

\* The "Image" cells: two image URLs, an empty cell, a text that is no URL.
ImageCells == {<<"h", "t", "t", "p", ":", "/", "/", "m", "/", "a", ".", "j", "p", "g">>, <<"h", "t", "t", "p", ":", "/", "/", "m", "/", "b", ".", "j", "p", "g">>, NaN, <<"n", "/", "a">>}

\* The "Museum number" cells: the first two differ only in characters that the
\* file name derivation replaces by the same character.
NumberCells == {<<"A", ".", "1">>, <<" ", "A", " ", "1">>, <<"B", ",", "2">>}

CsvRows == [Image : ImageCells, number : NumberCells]

bm_AssetUrls == {c \in ImageCells : StartsWith(c, HttpScheme)}

\* The CSV file is missing, or holds any rows; up to MaxFaults downloads go wrong.
bm_Sites ==
    {[csv |-> FALSE, rows |-> <<>>, down |-> {}, bad |-> <<>>]} \cup
    {[csv |-> TRUE, rows |-> r, down |-> {}, bad |-> f.bad] :
        r \in SeqsUpTo(CsvRows, MaxRows), f \in Faults({}, bm_AssetUrls)}

(***************************************************************************)
(* run_ukpuru.py: get_all_posts, scrape_post_data, download_image          *)
(***************************************************************************)
RECURSIVE DedupKeepFirst(_)
\* list(dict.fromkeys(posts))
DedupKeepFirst(s) ==
    IF s = <<>> THEN <<>>
    ELSE LET front == DedupKeepFirst(SubSeq(s, 1, Len(s) - 1)) IN
         IF s[Len(s)] \in Range(front) THEN front ELSE Append(front, s[Len(s)])

\* The accumulator "posts" is kept to its first PostsCap entries.  A crawl that
\* requests no listing page twice collects at most PostsCap links.
PostsCap == NumPages * MaxLinks

\* pbar.update(1) counts the pages read; the count is kept modulo PbarWrap.
PbarWrap == 2

ImageExts == {<<".", "j", "p", "g">>, <<".", "j", "p", "e", "g">>, <<".", "p", "n", "g">>, <<".", "g", "i", "f">>, <<".", "w", "e", "b", "p">>}

\* download_image: the extension of the new file
ukpuru_ext(img_url) ==
    LET ext == Lower(splitext_ext(BeforeFirst(img_url, "?"))) IN
    IF ext = <<>> \/ ext \notin ImageExts THEN <<".", "j", "p", "g">> ELSE ext

\* download_image: f"{SOURCE_ID}_{post_slug}_{index:02d}{ext}"
ukpuru_new_filename(img_url, post_slug, index) ==
    ukpuru_SOURCE_ID \o <<"_">> \o post_slug \o <<"_">> \o Fmt02d(index) \o ukpuru_ext(img_url)

\* download_image(img_url, post_slug, index) on raw image directory dir:
\* the directory afterwards and the value returned (None on any exception).
\* The response is not checked for its status: an error page is stored like an image.
ukpuru_download_image(dir, src, post_slug, index) ==
    LET img_url == urljoin(ukpuru_BASE_URL, src)
        kind == AssetKind(img_url)
        name == ukpuru_new_filename(img_url, post_slug, index)
    IN  IF kind = "timeout" THEN [dir |-> dir, ret |-> None]
        ELSE IF kind = "io_error"
             THEN [dir |-> Put(dir, name, FileBytes(img_url, "partial")), ret |-> None]
        ELSE IF kind = "http_error"
             THEN [dir |-> Put(dir, name, FileBytes(img_url, "errorpage")), ret |-> name]
        ELSE [dir |-> Put(dir, name, FileBytes(img_url, kind)), ret |-> name]

\* run_scraper: os.makedirs(RAW_IMG_DIR); get_all_posts(BASE_URL) starts
ukpuru_run_scraper ==
    /\ pc = "start"
    /\ source = "ukpuru"
    /\ pc' = "crawl"
    /\ loc' = [posts |-> <<>>, current_url |-> ukpuru_BASE_URL, pbar |-> 0]
    /\ hist' = [hist EXCEPT !.stages = @ \cup {"run_scraper"}]
    /\ UNCHANGED <<source, site, rawImg, cleanImg, rawJsonl, cleanJsonl, readme>>

\* get_all_posts: one iteration of "while current_url", and the return when the
\* loop ends (then run_scraper opens RAW_JSONL for writing).
get_all_posts_step ==
    /\ pc = "crawl"
    /\ LET url == loc.current_url
           soup == PageUp(url)
           links == IF soup THEN site.pages[url].links ELSE <<>>
           posts == IF links = <<>> THEN loc.posts
                    ELSE Take(loc.posts \o links, PostsCap)
           older == IF links = <<>> THEN None
                    ELSE IF site.pages[url].older # None
                         THEN urljoin(ukpuru_BASE_URL, site.pages[url].older)
                         ELSE None
       IN  /\ hist' = [hist EXCEPT !.listed = @ \cup {url},
                                   !.discoveryFailed = @ \/ (hist.listed = {} /\ ~soup),
                                   !.found = posts,
                                   !.discovered = IF older # None THEN @
                                                  ELSE DedupKeepFirst(posts)]
           /\ IF older # None
              THEN /\ loc' = [posts |-> posts, current_url |-> older,
                               pbar |-> (loc.pbar + 1) % PbarWrap]
                   /\ UNCHANGED <<pc, rawJsonl>>
              ELSE /\ pc' = "scrape"
                   /\ loc' = [posts_to_scrape |-> DedupKeepFirst(posts), next |-> 1]
                   /\ rawJsonl' = <<>>
    /\ UNCHANGED <<source, site, rawImg, cleanImg, cleanJsonl, readme>>

\* run_scraper: one iteration of "for url in posts_to_scrape" up to the image loop
\* of scrape_post_data (which returns None when the page or its body is missing),
\* and the end of run_scraper after the last post.
scrape_post_begin ==
    /\ pc = "scrape"
    /\ IF loc.next > Len(loc.posts_to_scrape)
       THEN /\ pc' = "clean"
            /\ loc' = <<>>
       ELSE LET url == loc.posts_to_scrape[loc.next]
                page == PostPageAt(url)
            IN  IF ~PageUp(url) \/ ~page.body
                THEN /\ loc' = [loc EXCEPT !.next = @ + 1]
                     /\ UNCHANGED pc
                ELSE /\ pc' = "images"
                     /\ loc' = [posts_to_scrape |-> loc.posts_to_scrape,
                                next |-> loc.next,
                                url |-> url,
                                title |-> IF page.title = None
                                          THEN <<"U", "n", "t", "i", "t", "l", "e", "d">> ELSE page.title,
                                imgs |-> page.imgs,
                                i |-> 0,
                                scraped_images |-> <<>>]
    /\ UNCHANGED <<source, site, rawImg, cleanImg, rawJsonl, cleanJsonl, readme, hist>>

\* scrape_post_data: one iteration of "for i, img_tag in enumerate(...)"
scrape_post_image ==
    /\ pc = "images"
    /\ source = "ukpuru"
    /\ loc.i < Len(loc.imgs)
    /\ LET img_src == loc.imgs[loc.i + 1]
           got == ukpuru_download_image(rawImg, img_src,
                                        ukpuru_sanitize_filename(loc.title), loc.i)
       IN  IF img_src = None
           THEN /\ loc' = [loc EXCEPT !.i = @ + 1]
                /\ UNCHANGED <<rawImg, hist>>
           ELSE /\ rawImg' = got.dir
                /\ loc' = [loc EXCEPT
                             !.i = @ + 1,
                             !.scraped_images =
                                 IF got.ret = None THEN @
                                 ELSE Append(@, [file_name |-> got.ret,
                                                 original_url |->
                                                     urljoin(ukpuru_BASE_URL, img_src)])]
                /\ hist' = [hist EXCEPT
                             !.attempted = @ \cup {<<loc.url, loc.i>>},
                             !.requested = @ \cup {urljoin(ukpuru_BASE_URL, img_src)},
                             !.failed = IF AssetKind(urljoin(ukpuru_BASE_URL, img_src))
                                              = "image"
                                        THEN @ ELSE @ \cup {<<loc.url, loc.i>>}]
    /\ UNCHANGED <<source, pc, site, cleanImg, rawJsonl, cleanJsonl, readme>>

\* scrape_post_data returns post_data; run_scraper writes it to RAW_JSONL
scrape_post_end ==
    /\ pc = "images"
    /\ source = "ukpuru"
    /\ loc.i >= Len(loc.imgs)
    /\ LET post_data == [id |-> ukpuru_SOURCE_ID \o <<"_">> \o
                                    ukpuru_sanitize_filename(loc.url),
                          original_url |-> loc.url,
                          title |-> loc.title,
                          images |-> loc.scraped_images]
       IN  /\ rawJsonl' = f_write(rawJsonl, json_dumps(post_data))
           /\ hist' = [hist EXCEPT !.emitted = Append(@, post_data)]
    /\ pc' = "scrape"
    /\ loc' = [posts_to_scrape |-> loc.posts_to_scrape, next |-> loc.next + 1]
    /\ UNCHANGED <<source, site, rawImg, cleanImg, cleanJsonl, readme>>

\* create_readme
create_readme ==
    /\ pc = "readme"
    /\ readme' = TRUE
    /\ pc' = IF source = "gijones" THEN "upload" ELSE "done"
    /\ hist' = [hist EXCEPT !.stages = @ \cup {"create_readme"}]
    /\ UNCHANGED <<source, site, rawImg, cleanImg, rawJsonl, cleanJsonl, loc>>

(***************************************************************************)
(* run_gijones.py: get_all_category_pages, scrape_gallery_page,            *)
(* download_image, upload_to_hf                                            *)
(***************************************************************************)
RECURSIVE Strip(_)
\* s.strip()
Strip(s) ==
    IF s = <<>> THEN s
    ELSE IF IsSpaceChar(Head(s)) THEN Strip(Tail(s))
    ELSE IF IsSpaceChar(s[Len(s)]) THEN Strip(SubSeq(s, 1, Len(s) - 1))
    ELSE s

\* the orders in which list(a_set) may give the elements of a set
Orders(S) == {s \in [1..Cardinality(S) -> S] : Range(s) = S}

exclude_list == {<<"/", "j", "o", "n", "e", "s", "-", "b", "i", "o", "g", "r", "a", "p", "h", "y", "/">>, <<"/", "b", "i", "b", "l", "i", "o", "g", "r", "a", "p", "h", "y", "/">>}

\* get_all_category_pages: the condition under which an anchor is a category
IsCategoryAnchor(a) ==
    LET full_link == urljoin(index_page_url, a.href) IN
    /\ Contains(full_link, <<"s", "i", "u", ".", "e", "d", "u">>)
    /\ EndsWith(a.href, <<"/">>)
    /\ Strip(a.text) # <<>>
    /\ full_link # index_page_url
    /\ ~\E ex \in exclude_list : Contains(full_link, ex)

RECURSIVE CategoryLinks(_)
\* get_all_category_pages: the links the loop over the anchors adds, in page order
CategoryLinks(anchors) ==
    IF anchors = <<>> THEN <<>>
    ELSE IF IsCategoryAnchor(Head(anchors))
         THEN <<urljoin(index_page_url, Head(anchors).href)>> \o CategoryLinks(Tail(anchors))
         ELSE CategoryLinks(Tail(anchors))

\* get_all_category_pages: the set category_pages after the loop over the anchors
category_pages(anchors) == Range(CategoryLinks(anchors))

\* get_all_category_pages: the lists "return list(category_pages)" may give
category_list(anchors) == Orders(category_pages(anchors))

\* download_image: f"{SOURCE_ID}_{safe_filename}" from the base name of the URL
gijones_new_filename(img_url) ==
    gijones_SOURCE_ID \o <<"_">> \o
    gijones_sanitize_filename(basename(BeforeFirst(img_url, "?")))

\* download_image(img_url) on raw image directory dir: the directory afterwards
\* and the file name returned (None on any exception: a URL requests cannot
\* fetch, a timeout, a status raise_for_status rejects, a failed write, a file
\* Image.open cannot read).
gijones_download_image(dir, img_url) ==
    LET kind == AssetKind(img_url)
        name == gijones_new_filename(img_url)
    IN  IF ~StartsWith(img_url, HttpScheme) \/ kind \in {"timeout", "http_error"}
        THEN [dir |-> dir, ret |-> None]
        ELSE IF kind = "io_error"
             THEN [dir |-> Put(dir, name, FileBytes(img_url, "partial")), ret |-> None]
        ELSE IF kind = "garbage"
             THEN [dir |-> Put(dir, name, FileBytes(img_url, "garbage")), ret |-> None]
        ELSE [dir |-> Put(dir, name, FileBytes(img_url, "image")), ret |-> name]

\* __main__ without HF_TOKEN in the environment: main() is not called, the script
\* prints two lines and ends.
gijones_no_token ==
    /\ pc = "start"
    /\ source = "gijones"
    /\ ~site.token
    /\ pc' = "done"
    /\ UNCHANGED <<source, site, rawImg, cleanImg, rawJsonl, cleanJsonl, readme, loc, hist>>

\* __main__ with HF_TOKEN set -> main -> run_scraper: get_all_category_pages(BASE_URL)
\* as a whole, then open(RAW_JSONL, "w").  A photo-indexes/ page that does not
\* load gives [].
gijones_run_scraper ==
    /\ pc = "start"
    /\ source = "gijones"
    /\ site.token
    /\ \E pages \in (IF PageUp(index_page_url)
                     THEN category_list(site.anchors) ELSE {<<>>}) :
          /\ loc' = [category_pages_to_scrape |-> pages, next |-> 1]
          /\ hist' = [hist EXCEPT
                        !.stages = @ \cup {"run_scraper"},
                        !.listed = @ \cup {index_page_url},
                        !.discoveryFailed = ~PageUp(index_page_url),
                        !.found = IF PageUp(index_page_url)
                                  THEN CategoryLinks(site.anchors) ELSE <<>>,
                        !.discovered = pages]
    /\ pc' = "gallery"
    /\ rawJsonl' = <<>>
    /\ UNCHANGED <<source, site, rawImg, cleanImg, cleanJsonl, readme>>

\* run_scraper: one iteration of "for url in category_pages_to_scrape" up to the
\* item loop of scrape_gallery_page (which returns [] when the page does not load
\* or shows no gallery item), and the end of run_scraper after the last page.
scrape_gallery_begin ==
    /\ pc = "gallery"
    /\ IF loc.next > Len(loc.category_pages_to_scrape)
       THEN /\ pc' = "clean"
            /\ loc' = <<>>
            /\ UNCHANGED hist
       ELSE LET url == loc.category_pages_to_scrape[loc.next] IN
            /\ hist' = [hist EXCEPT !.listed = @ \cup {url}]
            /\ IF ~PageUp(url) \/ GalleryItems(url) = <<>>
               THEN /\ loc' = [loc EXCEPT !.next = @ + 1]
                    /\ UNCHANGED pc
               ELSE /\ pc' = "items"
                    /\ loc' = [category_pages_to_scrape |-> loc.category_pages_to_scrape,
                               next |-> loc.next,
                               url |-> url,
                               gallery_items |-> GalleryItems(url),
                               k |-> 1,
                               all_post_data |-> <<>>]
    /\ UNCHANGED <<source, site, rawImg, cleanImg, rawJsonl, cleanJsonl, readme>>

\* scrape_gallery_page: one iteration of "for item in gallery_items"
scrape_gallery_item ==
    /\ pc = "items"
    /\ loc.k <= Len(loc.gallery_items)
    /\ LET item == loc.gallery_items[loc.k]
           full_image_url == item.href
           caption == IF item.caption = None THEN <<"U", "n", "t", "i", "t", "l", "e", "d">> ELSE item.caption
           got == gijones_download_image(rawImg, full_image_url)
       IN  IF full_image_url = None
           THEN /\ loc' = [loc EXCEPT !.k = @ + 1]
                /\ UNCHANGED <<rawImg, hist>>
           ELSE /\ rawImg' = got.dir
                /\ loc' = [loc EXCEPT
                             !.k = @ + 1,
                             !.all_post_data =
                                 IF got.ret = None THEN @
                                 ELSE Append(@,
                                        [id |-> gijones_SOURCE_ID \o <<"_">> \o
                                                gijones_sanitize_filename(full_image_url),
                                         original_url |-> loc.url,
                                         title |-> caption,
                                         images |-> <<[file_name |-> got.ret,
                                                       original_url |-> full_image_url]>>])]
                /\ hist' = [hist EXCEPT
                             !.attempted = @ \cup {<<loc.url, loc.k>>},
                             !.requested = @ \cup {full_image_url},
                             !.failed = IF AssetKind(full_image_url) = "image"
                                        THEN @ ELSE @ \cup {<<loc.url, loc.k>>}]
    /\ UNCHANGED <<source, pc, site, cleanImg, rawJsonl, cleanJsonl, readme>>

\* scrape_gallery_page returns; run_scraper writes every record that has images
scrape_gallery_end ==
    /\ pc = "items"
    /\ loc.k > Len(loc.gallery_items)
    /\ rawJsonl' = rawJsonl \o
           [n \in 1..Len(loc.all_post_data) |-> json_dumps(loc.all_post_data[n])]
    /\ pc' = "gallery"
    /\ loc' = [category_pages_to_scrape |-> loc.category_pages_to_scrape,
               next |-> loc.next + 1]
    /\ hist' = [hist EXCEPT !.emitted = @ \o loc.all_post_data]
    /\ UNCHANGED <<source, site, rawImg, cleanImg, cleanJsonl, readme>>

\* upload_to_hf: "for attempt in range(3)"
MaxAttempts == 3

\* upload_to_hf is entered
upload_begin ==
    /\ pc = "upload"
    /\ source = "gijones"
    /\ loc = <<>>
    /\ loc' = [attempt |-> 0]
    /\ hist' = [hist EXCEPT !.stages = @ \cup {"upload_to_hf"}]
    /\ UNCHANGED <<source, pc, site, rawImg, cleanImg, rawJsonl, cleanJsonl, readme>>

\* upload_to_hf: one attempt (HfApi, create_repo, upload_folder, all inside the
\* try).  It succeeds (break), or raises: the exception is caught and logged, and
\* the loop sleeps 10 seconds and goes on when attempt < 2, else ends.
upload_attempt ==
    /\ pc = "upload"
    /\ source = "gijones"
    /\ loc # <<>>
    /\ loc.attempt < MaxAttempts
    /\ \E ok \in BOOLEAN :
          IF ok
          THEN /\ pc' = "done"
               /\ loc' = <<>>
               /\ hist' = [hist EXCEPT !.uploads = Append(@, "ok")]
          ELSE IF loc.attempt < MaxAttempts - 1
          THEN /\ pc' = pc
               /\ loc' = [attempt |-> loc.attempt + 1]
               /\ hist' = [hist EXCEPT !.uploads = Append(@, "failed"),
                                       !.sleeps = @ + 1]
          ELSE /\ pc' = "done"
               /\ loc' = <<>>
               /\ hist' = [hist EXCEPT !.uploads = Append(@, "failed")]
    /\ UNCHANGED <<source, site, rawImg, cleanImg, rawJsonl, cleanJsonl, readme>>

(***************************************************************************)
(* run_british_museum.py: setup_directories, process_british_museum,       *)
(* save_and_package                                                        *)
(***************************************************************************)
RECURSIVE RemoveChar(_, _)
\* s.replace(c, "")
RemoveChar(s, c) ==
    IF s = <<>> THEN <<>>
    ELSE IF Head(s) = c THEN RemoveChar(Tail(s), c)
    ELSE <<Head(s)>> \o RemoveChar(Tail(s), c)

\* str(cell): the text of a cell ("nan" for an empty one)
StrOf(cell) == IF cell = NaN THEN <<"n", "a", "n">> ELSE cell

\* museum_number.replace(".", "_").replace(" ", "_").replace("/", "-").replace(",", "")
safe_id_of(museum_number) ==
    RemoveChar(ReplaceChar(ReplaceChar(ReplaceChar(museum_number,
                   ".", "_"), " ", "_"), "/", "-"), ",")

\* f"bm_{safe_id}.{ext}" with ext = img_url.split('.')[-1]
bm_filename(museum_number, img_url) ==
    <<"b", "m", "_">> \o safe_id_of(museum_number) \o <<".">> \o AfterLast(img_url, ".")

\* __main__: setup_directories() removes BASE_DIR and everything below it
setup_directories ==
    /\ pc = "start"
    /\ source = "british_museum"
    /\ rawImg' = NoFiles
    /\ cleanImg' = NoFiles
    /\ cleanJsonl' = <<>>
    /\ readme' = FALSE
    /\ pc' = "csv"
    /\ hist' = [hist EXCEPT !.stages = @ \cup {"setup_directories"}]
    /\ UNCHANGED <<source, site, rawJsonl, loc>>

\* process_british_museum up to its loop: without the CSV file it returns [],
\* and __main__ then calls nothing more.
process_begin ==
    /\ pc = "csv"
    /\ hist' = [hist EXCEPT !.stages = @ \cup {"process_british_museum"},
                            !.discoveryFailed = ~site.csv]
    /\ IF ~site.csv
       THEN pc' = "done" /\ loc' = <<>>
       ELSE pc' = "rows" /\ loc' = [records |-> site.rows, next |-> 1,
                                    processed_data |-> <<>>]
    /\ UNCHANGED <<source, site, rawImg, cleanImg, rawJsonl, cleanJsonl, readme>>

\* process_british_museum: one iteration of "for row in records"
process_row ==
    /\ pc = "rows"
    /\ loc.next <= Len(loc.records)
    /\ LET row == loc.records[loc.next]
           img_url == row.Image
           museum_number == Strip(StrOf(row.number))
           filename == bm_filename(museum_number, img_url)
           kind == AssetKind(img_url)
           exists == filename \in DOMAIN rawImg
           item == [id |-> museum_number,
                    title |-> museum_number,
                    images |-> <<[file_name |-> filename, original_url |-> img_url]>>]
       IN  IF img_url = NaN \/ ~StartsWith(img_url, HttpScheme)
           THEN /\ loc' = [loc EXCEPT !.next = @ + 1]
                /\ UNCHANGED <<rawImg, hist>>
           ELSE /\ hist' = [hist EXCEPT
                              !.attempted = @ \cup {<<loc.next, 0>>},
                              !.requested = IF exists THEN @ ELSE @ \cup {img_url},
                              !.failed = IF exists \/ kind = "image"
                                         THEN @ ELSE @ \cup {<<loc.next, 0>>},
                              !.emitted = IF exists \/ kind \in {"image", "garbage"}
                                          THEN Append(@, item) ELSE @]
                /\ IF exists
                   THEN /\ loc' = [loc EXCEPT !.next = @ + 1,
                                              !.processed_data = Append(@, item)]
                        /\ UNCHANGED rawImg
                   ELSE IF kind \in {"timeout", "http_error"}
                   THEN /\ loc' = [loc EXCEPT !.next = @ + 1]
                        /\ UNCHANGED rawImg
                   ELSE IF kind = "io_error"
                   THEN /\ loc' = [loc EXCEPT !.next = @ + 1]
                        /\ rawImg' = Put(rawImg, filename, FileBytes(img_url, "partial"))
                   ELSE /\ loc' = [loc EXCEPT !.next = @ + 1,
                                              !.processed_data = Append(@, item)]
                        /\ rawImg' = Put(rawImg, filename, FileBytes(img_url, kind))
    /\ UNCHANGED <<source, pc, site, cleanImg, rawJsonl, cleanJsonl, readme>>

\* process_british_museum returns processed_data; __main__ calls save_and_package
\* only "if data"
process_end ==
    /\ pc = "rows"
    /\ loc.next > Len(loc.records)
    /\ IF loc.processed_data = <<>>
       THEN pc' = "done" /\ loc' = <<>>
       ELSE pc' = "package" /\ loc' = [data |-> loc.processed_data]
    /\ UNCHANGED <<source, site, rawImg, cleanImg, rawJsonl, cleanJsonl, readme, hist>>

\* the images save_and_package copies: those the items reference that exist
Packaged(data, dir) ==
    {f \in DOMAIN dir : \E n \in 1..Len(data) :
        \E k \in 1..Len(data[n].images) : data[n].images[k].file_name = f}

\* save_and_package(data): write clean/data.jsonl, copy the referenced images
save_and_package ==
    /\ pc = "package"
    /\ cleanJsonl' = [n \in 1..Len(loc.data) |-> json_dumps(loc.data[n])]
    /\ cleanImg' = [f \in DOMAIN cleanImg \cup Packaged(loc.data, rawImg) |->
                       IF f \in Packaged(loc.data, rawImg) THEN rawImg[f] ELSE cleanImg[f]]
    /\ pc' = "done"
    /\ loc' = <<>>
    /\ hist' = [hist EXCEPT !.stages = @ \cup {"save_and_package"}]
    /\ UNCHANGED <<source, site, rawImg, rawJsonl, readme>>

\* upload_to_hf(): without HF_TOKEN it warns and returns.  HfApi(token=token) and
\* api.create_repo(...) stand before the try: an exception of create_repo leaves
\* the function.  upload_folder is tried once; its exception is caught and printed.
bm_upload_to_hf ==
    /\ pc = "upload"
    /\ source = "british_museum"
    /\ loc' = <<>>
    /\ IF ~site.token
       THEN /\ pc' = "done"
            /\ hist' = [hist EXCEPT !.stages = @ \cup {"upload_to_hf"}]
       ELSE \E outcome \in {"create_repo raises", "ok", "failed"} :
               /\ pc' = IF outcome = "create_repo raises" THEN "crashed" ELSE "done"
               /\ hist' = [hist EXCEPT
                             !.stages = @ \cup {"upload_to_hf"},
                             !.uploads = IF outcome = "create_repo raises" THEN @
                                         ELSE Append(@, outcome)]
    /\ UNCHANGED <<source, site, rawImg, cleanImg, rawJsonl, cleanJsonl, readme>>

(***************************************************************************)
(* run_cleaner (run_ukpuru.py, run_gijones.py)                             *)
(***************************************************************************)
Scrapers == {"ukpuru", "gijones"}

\* any(img['file_name'] in good_images for img in data['images'])
AnyGood(data, good_images) ==
    \E i \in 1..Len(data.images) : data.images[i].file_name \in good_images

\* A cleaner that rebuilds each kept reference from its file name alone.
ukpuru_clean_lines_rebuilt(data, good_images) ==
    LET kept == SelectImgs(data.images, good_images) IN
    <<json_dumps([data EXCEPT !.images =
                     [k \in 1..Len(kept) |-> [kept[k] EXCEPT !.original_url = <<>>]]])>>

\* run_ukpuru.py: the lines one raw record adds to CLEAN_JSONL
ukpuru_clean_lines(data, good_images) ==
    <<json_dumps([data EXCEPT !.images = SelectImgs(data.images, good_images)])>>

\* run_gijones.py: the lines one raw record adds to CLEAN_JSONL
gijones_clean_lines(data, good_images) ==
    IF ~AnyGood(data, good_images) THEN <<>> ELSE <<json_dumps(data)>>

clean_lines_of(src, data, good_images) ==
    IF src = "ukpuru" THEN ukpuru_clean_lines(data, good_images)
    ELSE gijones_clean_lines(data, good_images)

\* good_images = set(); bad_images_count = 0; image_files = os.listdir(RAW_IMG_DIR)
CleanerBegin ==
    /\ pc = "clean"
    /\ source \in Scrapers
    /\ pc' = "validate"
    /\ loc' = [image_files |-> DOMAIN rawImg, good_images |-> {},
               bad_images_count |-> 0]
    /\ hist' = [hist EXCEPT !.stages = @ \cup {"run_cleaner"}]
    /\ UNCHANGED <<source, site, rawImg, cleanImg, rawJsonl, cleanJsonl, readme>>

\* One iteration of "for filename in image_files": verify, then copy and remember.
\* os.listdir gives the names in no particular order.
ValidateImage ==
    /\ pc = "validate"
    /\ \E filename \in loc.image_files :
         IF VerifyRaises(rawImg[filename])
         THEN /\ loc' = [loc EXCEPT !.image_files = @ \ {filename},
                                    !.bad_images_count = @ + 1]
              /\ UNCHANGED cleanImg
         ELSE /\ cleanImg' = Put(cleanImg, filename, rawImg[filename])
              /\ loc' = [loc EXCEPT !.image_files = @ \ {filename},
                                    !.good_images = @ \cup {filename}]
    /\ UNCHANGED <<source, pc, site, rawImg, rawJsonl, cleanJsonl, readme, hist>>

\* The image loop is over; open(RAW_JSONL, "r"), open(CLEAN_JSONL, "w").
ValidateEnd ==
    /\ pc = "validate"
    /\ loc.image_files = {}
    /\ pc' = "filter"
    /\ cleanJsonl' = <<>>
    /\ loc' = [good_images |-> loc.good_images, next_line |-> 1, clean_lines |-> 0]
    /\ hist' = [hist EXCEPT !.cleanFrom = <<>>]
    /\ UNCHANGED <<source, site, rawImg, cleanImg, rawJsonl, readme>>

\* One iteration of "for line in f_in".  json.loads is not inside any try:
\* a line it rejects ends the script with the exception.
FilterLine ==
    /\ pc = "filter"
    /\ loc.next_line <= Len(rawJsonl)
    /\ LET line == rawJsonl[loc.next_line] IN
         IF json_loads_raises(line)
         THEN /\ pc' = "crashed"
              /\ UNCHANGED <<cleanJsonl, loc, hist>>
         ELSE LET out == clean_lines_of(source, json_loads(line), loc.good_images) IN
              /\ cleanJsonl' = cleanJsonl \o out
              /\ loc' = [loc EXCEPT !.next_line = @ + 1,
                                    !.clean_lines = @ + Len(out)]
              /\ hist' = [hist EXCEPT !.cleanFrom =
                              @ \o [i \in 1..Len(out) |-> loc.next_line]]
              /\ UNCHANGED pc
    /\ UNCHANGED <<source, site, rawImg, cleanImg, rawJsonl, readme>>

\* End of the raw stream: run_cleaner returns.
FilterEnd ==
    /\ pc = "filter"
    /\ loc.next_line > Len(rawJsonl)
    /\ pc' = "readme"
    /\ loc' = <<>>
    /\ UNCHANGED <<source, site, rawImg, cleanImg, rawJsonl, cleanJsonl, readme, hist>>

CleanerNext == CleanerBegin \/ ValidateImage \/ ValidateEnd \/ FilterLine \/ FilterEnd

(***************************************************************************)
(* run_cleaner called on the stores it finds on disk (the scripts expose   *)
(* their stages as functions "to be called directly in a notebook"): any   *)
(* raw image directory, any raw metadata stream, and possibly the output   *)
(* of an earlier pass in the clean store.                                  *)
(***************************************************************************)
DiskNames == {<<"a">>, <<"b">>}
DiskUrl == <<"u">>
OldUrl == <<"o">>

DiskDirs ==
    UNION {[names -> {FileBytes(DiskUrl, "image"), FileBytes(DiskUrl, "garbage")}] :
              names \in SUBSET DiskNames}

DiskImageRefs == {[file_name |-> n, original_url |-> DiskUrl] : n \in DiskNames}

\* The lines a raw stream may hold: a line json.loads rejects, or a record with any
\* list of image references.
DiskLines ==
    {MalformedLine} \cup
    {json_dumps([id |-> 0, title |-> <<"t">>, images |-> imgs]) :
        imgs \in SeqsUpTo(DiskImageRefs, MaxImgs)}

DiskStreams == SeqsUpTo(DiskLines, MaxLines)

\* The records of a stream numbered by their line.
Renumber(s) ==
    [i \in 1..Len(s) |-> IF s[i].json THEN json_dumps([s[i].data EXCEPT !.id = i])
                         ELSE s[i]]

CleanerInit ==
    /\ source \in Scrapers
    /\ pc = "clean"
    /\ site = <<>>
    /\ rawImg \in DiskDirs
    /\ \E s \in DiskStreams : rawJsonl = Renumber(s)
    /\ \E old \in {<<>>} \cup {<<n>> : n \in DiskNames} :
          /\ cleanImg = [n \in Range(old) |-> FileBytes(OldUrl, "image")]
          /\ cleanJsonl = [i \in 1..Len(old) |->
                             json_dumps([id |-> 0, title |-> <<"t">>,
                                         images |-> <<[file_name |-> old[i],
                                                       original_url |-> OldUrl]>>])]
    /\ readme = FALSE
    /\ loc = <<>>
    /\ hist = NewRun(1)

CleanerSpec == CleanerInit /\ [][CleanerNext]_vars

(***************************************************************************)
(* The scripts run from the top, on empty directories; a finished script   *)
(* may be run again on what it left on disk.                               *)
(***************************************************************************)
MaxRuns == 2       \* runs of one script

Sites(src) ==
    IF src = "ukpuru" THEN ukpuru_Sites
    ELSE IF src = "gijones" THEN gijones_Sites
    ELSE bm_Sites

Init ==
    /\ source \in {"ukpuru", "gijones", "british_museum"}
    /\ pc = "start"
    /\ site \in Sites(source)
    /\ rawImg = NoFiles
    /\ cleanImg = NoFiles
    /\ rawJsonl = <<>>
    /\ cleanJsonl = <<>>
    /\ readme = FALSE
    /\ loc = <<>>
    /\ hist = NewRun(1)

\* The script is stopped between two items of its fetch stage (KeyboardInterrupt,
\* which no "except Exception" catches): a with-block closes the stream it has
\* open, and what the process held in memory is gone.
Interrupt ==
    /\ pc \in {"scrape", "gallery", "rows"}
    /\ pc' = "interrupted"
    /\ loc' = <<>>
    /\ UNCHANGED <<source, site, rawImg, cleanImg, rawJsonl, cleanJsonl, readme, hist>>

\* The script is started again; the files stay.
Rerun ==
    /\ pc = "done"
    /\ hist.run < MaxRuns
    /\ pc' = "start"
    /\ loc' = <<>>
    /\ hist' = NewRun(hist.run + 1)
    /\ UNCHANGED <<source, site, rawImg, cleanImg, rawJsonl, cleanJsonl, readme>>

Next ==
    \/ ukpuru_run_scraper \/ get_all_posts_step
    \/ scrape_post_begin \/ scrape_post_image \/ scrape_post_end
    \/ gijones_no_token \/ gijones_run_scraper
    \/ scrape_gallery_begin \/ scrape_gallery_item \/ scrape_gallery_end
    \/ CleanerBegin \/ ValidateImage \/ ValidateEnd \/ FilterLine \/ FilterEnd
    \/ create_readme
    \/ upload_begin \/ upload_attempt
    \/ setup_directories \/ process_begin \/ process_row \/ process_end
    \/ save_and_package
    \/ Interrupt
    \/ Rerun

Spec == Init /\ [][Next]_vars

(***************************************************************************)
(* get_all_posts on its own: run_ukpuru.py from its start to the return of *)
(* the crawl.  The script is one sequential process and every request it   *)
(* makes has a timeout, so the loop takes its next iteration whenever it   *)
(* has one.                                                                *)
(***************************************************************************)
CrawlInit ==
    /\ Init
    /\ source = "ukpuru"
    /\ DOMAIN site.bad = {}
    /\ site.down \subseteq ListingUrls
    /\ \A p \in ListingUrls : Len(site.pages[p].links) <= 1

CrawlNext == ukpuru_run_scraper \/ get_all_posts_step

CrawlSpec == CrawlInit /\ [][CrawlNext]_vars /\ WF_vars(CrawlNext)

(***************************************************************************)
(* upload_to_hf called on its own, on any clean store (run_british_museum  *)
(* leaves its call commented out; run_gijones calls it last).  The         *)
(* function is one sequential process and takes its next step whenever it  *)
(* has one.                                                                *)
(***************************************************************************)
PublishInit ==
    /\ source \in {"gijones", "british_museum"}
    /\ pc = "upload"
    /\ site \in [token : BOOLEAN]
    /\ rawImg = NoFiles
    /\ rawJsonl = <<>>
    /\ cleanImg \in DiskDirs
    /\ cleanJsonl \in SeqsUpTo(DiskLines \ {MalformedLine}, 1)
    /\ readme \in BOOLEAN
    /\ loc = <<>>
    /\ hist = NewRun(1)

PublishNext == upload_begin \/ upload_attempt \/ bm_upload_to_hf

PublishSpec == PublishInit /\ [][PublishNext]_vars /\ WF_vars(PublishNext)

(***************************************************************************)
(* The derivation of file names on its own: sanitize_filename and the      *)
(* name download_image builds, applied to any title (ukpuru) or base name  *)
(* of an image URL (gijones).                                              *)
(***************************************************************************)
MaxTitleLen == 3       \* characters of a short title
LongLen == 120         \* characters of the long title

TitleChars == {"A", "b", " ", "\t", "-", "!"}

Repeat(c, n) == [i \in 1..n |-> c]

Titles == SeqsUpTo(TitleChars, MaxTitleLen) \cup {Repeat("a", LongLen)}

\* the src attributes of the img tags of the posts
ImgSrcs == UNION {Range(PostPage(k).imgs) : k \in 1..NumPosts} \ {None}

NameInit ==
    /\ source \in Scrapers
    /\ pc = "derive"
    /\ site = <<>>
    /\ rawImg = NoFiles
    /\ cleanImg = NoFiles
    /\ rawJsonl = <<>>
    /\ cleanJsonl = <<>>
    /\ readme = FALSE
    /\ hist = NewRun(1)
    /\ \E title \in Titles :
          IF source = "ukpuru"
          THEN \E i \in {0, 11}, src \in ImgSrcs :
                  loc = [title |-> title, img_src |-> src, index |-> i]
          ELSE loc = [img_url |-> gijones_BASE_URL \o <<"m", "/">> \o title \o <<"?", "v">>]

\* download_image up to new_filename (run_ukpuru.py with post_slug =
\* sanitize_filename(title), as scrape_post_data calls it)
derive_filename ==
    /\ pc = "derive"
    /\ pc' = "derived"
    /\ loc' = [input |-> loc,
               new_filename |->
                  IF source = "ukpuru"
                  THEN ukpuru_new_filename(urljoin(ukpuru_BASE_URL, loc.img_src),
                                           ukpuru_sanitize_filename(loc.title), loc.index)
                  ELSE gijones_new_filename(loc.img_url)]
    /\ UNCHANGED <<source, site, rawImg, cleanImg, rawJsonl, cleanJsonl, readme, hist>>

NameSpec == NameInit /\ [][derive_filename]_vars

(***************************************************************************)
(* Properties                                                              *)
(***************************************************************************)
RECURSIVE IsSubSeq(_, _)
\* s can be obtained from t by deleting elements
IsSubSeq(s, t) ==
    IF s = <<>> THEN TRUE
    ELSE IF t = <<>> THEN FALSE
    ELSE IF Head(s) = Head(t) THEN IsSubSeq(Tail(s), Tail(t))
    ELSE IsSubSeq(s, Tail(t))

\* run_cleaner has returned
CleanerReturned ==
    /\ source \in Scrapers
    /\ "run_cleaner" \in hist.stages
    /\ pc \in {"readme", "upload", "done"}

\* the file names a metadata stream references
Referenced(stream) ==
    UNION {{stream[i].data.images[k].file_name : k \in 1..Len(stream[i].data.images)} :
              i \in {j \in 1..Len(stream) : stream[j].json}}

\* the files of a directory that Image.open + verify accept
ValidIn(dir) == {f \in DOMAIN dir : ~VerifyRaises(dir[f])}

\* every record of the raw stream parses and carries one or more image references
RawRecordsCarryImages ==
    \A i \in 1..Len(rawJsonl) : rawJsonl[i].json /\ Len(rawJsonl[i].data.images) >= 1

\* C1 (as claimed): after run_cleaner has returned, every file name a clean record
\* references is a file of the clean image directory that passed verification in
\* this pass (it is a valid file of the raw directory, copied unchanged), whatever
\* the raw directory holds and whatever records (with one or more image references)
\* the raw stream holds.
C1_ReferentialIntegrity ==
    (CleanerReturned /\ RawRecordsCarryImages) =>
        \A f \in Referenced(cleanJsonl) :
            /\ f \in DOMAIN cleanImg
            /\ f \in ValidIn(rawImg)
            /\ cleanImg[f] = rawImg[f]

\* C2 (as claimed): after cleaning has completed, every file of the clean image
\* directory is referenced by some record of the clean metadata stream.
C2_NoOrphans ==
    CleanerReturned => DOMAIN cleanImg \subseteq Referenced(cleanJsonl)

\* the lines of the raw stream that json.loads rejects
MalformedAt == {i \in 1..Len(rawJsonl) : ~rawJsonl[i].json}

\* the lines of the raw stream whose record the source's image policy keeps
KeptAt ==
    {i \in 1..Len(rawJsonl) :
        /\ rawJsonl[i].json
        /\ source = "gijones" => AnyGood(rawJsonl[i].data, ValidIn(rawImg))}

\* C3 (as claimed): with exactly one malformed line in the raw stream the cleaner
\* does not crash, and once it has returned the clean stream holds exactly the
\* records of the valid lines (those the image policy keeps).
C3_CorruptionContained ==
    (source \in Scrapers /\ Cardinality(MalformedAt) = 1) =>
        /\ pc # "crashed"
        /\ CleanerReturned => Len(cleanJsonl) = Cardinality(KeptAt)

\* the clean stream is being written, or has been written, by this pass
CleanStreamWritten ==
    /\ source \in Scrapers
    /\ "run_cleaner" \in hist.stages
    /\ pc \in {"filter", "readme", "upload", "done", "crashed"}

\* C6: every record of the clean stream comes from a record of the raw stream
\* (hist.cleanFrom names its line), its images are a sub-list of that record's
\* images and all its other fields are that record's.
C6_PureFilter ==
    CleanStreamWritten =>
        /\ Len(hist.cleanFrom) = Len(cleanJsonl)
        /\ \A j \in 1..Len(cleanJsonl) :
              LET raw == json_loads(rawJsonl[hist.cleanFrom[j]])
                  clean == json_loads(cleanJsonl[j])
              IN  /\ cleanJsonl[j].json
                  /\ IsSubSeq(clean.images, raw.images)
                  /\ [clean EXCEPT !.images = raw.images] = raw

\* C6 happens: the cleaner has returned and one clean record lost some but not all
\* of the images of its raw record.
C6_Witness ==
    /\ CleanerReturned
    /\ \E j \in 1..Len(cleanJsonl) :
          LET raw == json_loads(rawJsonl[hist.cleanFrom[j]])
              clean == json_loads(cleanJsonl[j])
          IN  /\ Len(clean.images) >= 1
              /\ Len(clean.images) < Len(raw.images)

\* C4 (as claimed): get_all_posts stops after finitely many page fetches and
\* returns, on every blog, those whose pager links lead back to a page already
\* visited included.
C4_CrawlTerminates == (pc = "crawl") ~> (pc # "crawl")

\* C5 (as claimed): on a site that served every page and every asset, the second
\* run of a script, started on the stores the first run left, requests no asset.
C5_NoRefetch ==
    (hist.run > 1 /\ site.down = {} /\ DOMAIN site.bad = {}) => hist.requested = {}

\* the fetch stage of this run has returned
FetchStageOver ==
    IF source = "british_museum"
    THEN "process_british_museum" \in hist.stages /\ site.csv /\ pc \in {"package", "done"}
    ELSE "run_scraper" \in hist.stages
         /\ pc \in {"clean", "validate", "filter", "readme", "upload", "done"}

\* the records the fetch stage hands on
FetchedRecords ==
    IF source = "british_museum"
    THEN (IF pc = "package" THEN loc.data ELSE <<>>)
    ELSE [i \in 1..Len(rawJsonl) |-> rawJsonl[i].data]

\* the <<item, index>> of every asset of every item discovery returned whose page
\* could be read
AssetsToAttempt ==
    IF source = "ukpuru"
    THEN {<<u, i>> : u \in {p \in Range(hist.discovered) :
                               PageUp(p) /\ PostPageAt(p).body},
                     i \in 0..(MaxImgs - 1)} \cap
         {a \in PostUrls \X (0..(MaxImgs - 1)) :
             /\ a[2] < Len(PostPageAt(a[1]).imgs)
             /\ PostPageAt(a[1]).imgs[a[2] + 1] # None}
    ELSE IF source = "gijones"
    THEN {a \in {c \in Range(hist.discovered) : PageUp(c)} \X (1..MaxImgs) :
             /\ a[2] <= Len(GalleryItems(a[1]))
             /\ GalleryItems(a[1])[a[2]].href # None}
    ELSE {<<n, 0>> : n \in {r \in 1..Len(site.rows) :
                               /\ site.rows[r].Image # NaN
                               /\ StartsWith(site.rows[r].Image, HttpScheme)}}

\* C7 (as claimed): an asset whose fetch or write fails (timeout, non-2xx status,
\* I/O error, undecodable image) does not crash the script, no record the fetch
\* stage hands on references it, and every asset of every item discovered is
\* attempted all the same.
C7_AssetFailureContained ==
    /\ pc # "crashed"
    /\ FetchStageOver =>
          /\ AssetsToAttempt \subseteq hist.attempted
          /\ \A n \in 1..Len(FetchedRecords) :
                \A k \in 1..Len(FetchedRecords[n].images) :
                    AssetKind(FetchedRecords[n].images[k].original_url) = "image"

\* C8 (as claimed): when the first listing page, the photo-indexes/ page or the CSV
\* file is not there, no asset is fetched and neither the cleaner, the README
\* writer, the packager nor the upload is entered.
C8_DiscoveryFailureFatal ==
    hist.discoveryFailed =>
        /\ hist.attempted = {}
        /\ hist.stages \cap {"run_cleaner", "create_readme", "save_and_package",
                             "upload_to_hf"} = {}

\* C9 (as claimed): when the first page loads, the fetch stage has requested every
\* listing or category page the source offers by the time it returns, and every
\* item link of those that loaded is among the locators discovered.
C9_PageFailureRecoverable ==
    /\ (source = "ukpuru" /\ FetchStageOver /\ PageUp(ukpuru_BASE_URL)) =>
          \A p \in Offered(site.pages) :
              /\ p \in hist.listed
              /\ PageUp(p) => Range(site.pages[p].links) \subseteq Range(hist.discovered)
    /\ (source = "gijones" /\ FetchStageOver /\ PageUp(index_page_url)) =>
          /\ category_pages(site.anchors) \subseteq hist.listed
          /\ \A a \in AssetsToAttempt : a \in hist.attempted

\* discovery (get_all_posts, get_all_category_pages) has returned in this run
DiscoveryReturned ==
    /\ source \in Scrapers
    /\ "run_scraper" \in hist.stages
    /\ pc \notin {"start", "crawl"}

\* C10 (as claimed): the list discovery returns holds no locator twice, holds
\* every locator met, and orders them by where each was met first.
C10_DedupInDiscoveryOrder ==
    DiscoveryReturned =>
        LET d == hist.discovered
            f == hist.found
        IN  /\ \A i, j \in 1..Len(d) : i # j => d[i] # d[j]
            /\ Range(d) = Range(f)
            /\ \A i, j \in 1..Len(d) :
                  i < j => SetMin(Positions(f, d[i])) < SetMin(Positions(f, d[j]))

\* run_scraper of this run has opened the raw stream for writing
RawStreamOpened ==
    /\ source \in Scrapers
    /\ "run_scraper" \in hist.stages
    /\ pc \notin {"start", "crawl"}

\* where a raw record's item stands in discovery: the place of its page in the list
\* discovery returned, then the place of its image link on that page
DiscoveryPos(rec) ==
    <<SetMin(Positions(hist.discovered, rec.original_url)),
      IF source = "gijones"
      THEN SetMin({k \in 1..Len(GalleryItems(rec.original_url)) :
                      GalleryItems(rec.original_url)[k].href = rec.images[1].original_url})
      ELSE 0>>

\* C11: the records of the raw stream stand in the order in which discovery
\* returned their items (page by page, and within a gallery page item by item),
\* and the records of the clean stream come from raw lines of increasing number,
\* each carrying the page URL and id of its raw line.
C11_OrderPreserved ==
    /\ RawStreamOpened =>
          /\ \A i \in 1..Len(rawJsonl) :
                rawJsonl[i].data.original_url \in Range(hist.discovered)
          /\ \A i, j \in 1..Len(rawJsonl) :
                i < j =>
                    LET a == DiscoveryPos(rawJsonl[i].data)
                        b == DiscoveryPos(rawJsonl[j].data)
                    IN  a[1] < b[1] \/ (a[1] = b[1] /\ a[2] < b[2])
    /\ (CleanStreamWritten /\ pc # "crashed") =>
          /\ \A i, j \in 1..Len(hist.cleanFrom) :
                i < j => hist.cleanFrom[i] < hist.cleanFrom[j]
          /\ \A j \in 1..Len(cleanJsonl) :
                /\ hist.cleanFrom[j] \in 1..Len(rawJsonl)
                /\ cleanJsonl[j].data.original_url =
                       rawJsonl[hist.cleanFrom[j]].data.original_url
                /\ cleanJsonl[j].data.id = rawJsonl[hist.cleanFrom[j]].data.id

\* C11 happens: the cleaner has returned with two or more clean records that come
\* from different items.
C11_Witness ==
    /\ CleanerReturned
    /\ Len(cleanJsonl) >= 2
    /\ cleanJsonl[1].data.original_url # cleanJsonl[2].data.original_url

\* the file name derived for the asset the next step of the fetch stage is about
\* to fetch (None when the next step fetches nothing)
NextAssetName ==
    IF pc = "images" /\ source = "ukpuru" /\ loc.i < Len(loc.imgs)
    THEN (IF loc.imgs[loc.i + 1] = None THEN None
          ELSE ukpuru_new_filename(urljoin(ukpuru_BASE_URL, loc.imgs[loc.i + 1]),
                                   ukpuru_sanitize_filename(loc.title), loc.i))
    ELSE IF pc = "items" /\ loc.k <= Len(loc.gallery_items)
    THEN (IF loc.gallery_items[loc.k].href = None THEN None
          ELSE gijones_SOURCE_ID \o <<"_">> \o gijones_sanitize_filename(
                   basename(BeforeFirst(loc.gallery_items[loc.k].href, "?"))))
    ELSE IF pc = "rows" /\ loc.next <= Len(loc.records)
    THEN (IF loc.records[loc.next].Image = NaN
             \/ ~StartsWith(loc.records[loc.next].Image, HttpScheme)
          THEN None
          ELSE bm_filename(Strip(StrOf(loc.records[loc.next].number)),
                           loc.records[loc.next].Image))
    ELSE None

\* C12 (as claimed): no step removes a file of the raw image directory or changes
\* its bytes, and a step that comes to an asset whose derived file name is already
\* there requests nothing new.
C12_RawStoreAppendOnly ==
    [][/\ \A f \in DOMAIN rawImg : f \in DOMAIN rawImg' /\ rawImg'[f] = rawImg[f]
       /\ (NextAssetName # None /\ NextAssetName \in DOMAIN rawImg /\ hist'.run = hist.run)
             => hist'.requested \subseteq hist.requested]_vars

\* C13 (as claimed): upload_to_hf makes at most MaxAttempts attempts, every attempt
\* but the last one made has failed, a wait lies between any two consecutive
\* attempts, the function never raises to its caller, and it always returns.
C13_BoundedRetry ==
    /\ [](/\ Len(hist.uploads) <= MaxAttempts
          /\ \A k \in 1..(Len(hist.uploads) - 1) : hist.uploads[k] = "failed"
          /\ hist.sleeps >= Len(hist.uploads) - 1
          /\ pc # "crashed")
    /\ <>(pc = "done")

\* C14 (as claimed): started without a publisher token in the environment, the
\* script does not crash and, when it ends, the scraper and the cleaner have run
\* and only the upload has not.
C14_NoTokenSkipsOnlyPublish ==
    (source = "gijones" /\ ~site.token) =>
        /\ pc # "crashed"
        /\ pc = "done" =>
              /\ {"run_scraper", "run_cleaner", "create_readme"} \subseteq hist.stages
              /\ "upload_to_hf" \notin hist.stages

\* C15 (as claimed): once run_cleaner has returned, a raw record has a record in
\* the clean stream if and only if one or more of its image references name a
\* file that passed verification.
C15_WrittenIffImageSurvives ==
    CleanerReturned =>
        \A i \in 1..Len(rawJsonl) :
            i \in Range(hist.cleanFrom) <=>
                AnyGood(json_loads(rawJsonl[i]), ValidIn(rawImg))

\* no two records of a stream carry the same id
UniqueIds(stream) ==
    \A i, j \in 1..Len(stream) :
        (i # j /\ stream[i].json /\ stream[j].json) => stream[i].data.id # stream[j].data.id

\* C16 (as claimed): no two records of the raw stream a run writes, and no two
\* records of its clean stream, carry the same id.
C16_UniqueIds ==
    /\ RawStreamOpened => UniqueIds(rawJsonl)
    /\ (CleanStreamWritten \/ (source = "british_museum" /\ "save_and_package" \in hist.stages))
          => UniqueIds(cleanJsonl)

\* the metadata a script has on disk while its fetch stage runs: the raw stream of
\* a scraper; run_british_museum.py writes none before save_and_package
StoredRecords ==
    IF source \in Scrapers THEN rawJsonl ELSE cleanJsonl

\* C17 (as claimed): when the script is stopped between two items of its fetch
\* stage, the record of every item processed so far is on disk, and so is every
\* file those records reference.
C17_PersistedIncrementally ==
    pc = "interrupted" =>
        \A n \in 1..Len(hist.emitted) :
            /\ json_dumps(hist.emitted[n]) \in Range(StoredRecords)
            /\ \A k \in 1..Len(hist.emitted[n].images) :
                  hist.emitted[n].images[k].file_name \in DOMAIN rawImg

\* C18 (as claimed): once run_cleaner has returned, the clean image directory
\* holds exactly the files of the raw image directory that passed verification,
\* with their bytes, and every record of the clean stream comes from a line of
\* the raw stream as it is now.
C18_CleanStoresRegenerated ==
    CleanerReturned =>
        /\ DOMAIN cleanImg = ValidIn(rawImg)
        /\ \A f \in DOMAIN cleanImg : f \in DOMAIN rawImg /\ cleanImg[f] = rawImg[f]
        /\ Len(hist.cleanFrom) = Len(cleanJsonl)
        /\ \A j \in 1..Len(cleanJsonl) :
              /\ hist.cleanFrom[j] \in 1..Len(rawJsonl)
              /\ cleanJsonl[j].data.id = rawJsonl[hist.cleanFrom[j]].data.id

\* the characters a derived file name may hold
NameAllowList ==
    Range(LowerChars) \cup Range(DigitChars) \cup {"-", "_", "."}

\* C19 (as claimed): the file name derived is the one the derivation gives for
\* its input, holds only lower-case letters, digits, "-", "_" and ".", so no
\* white space, holds no "--", and is no longer than MaxNameLen.
C19_FilenameSafe ==
    pc = "derived" =>
        LET name == loc.new_filename IN
        /\ name = (IF source = "ukpuru"
                   THEN ukpuru_new_filename(urljoin(ukpuru_BASE_URL, loc.input.img_src),
                                            ukpuru_sanitize_filename(loc.input.title),
                                            loc.input.index)
                   ELSE gijones_new_filename(loc.input.img_url))
        /\ \A i \in 1..Len(name) : name[i] \in NameAllowList
        /\ \A i \in 1..(Len(name) - 1) : ~(name[i] = "-" /\ name[i + 1] = "-")
        /\ Len(name) <= MaxNameLen

\* C20 (as claimed): after save_and_package, every image reference of a record of
\* clean/data.jsonl names a file of clean/images, and that file holds the whole
\* body of a 200 answer to the reference's own original_url.
C20_PackagedOwnBytes ==
    (source = "british_museum" /\ "save_and_package" \in hist.stages /\ pc = "done") =>
        \A n \in 1..Len(cleanJsonl) :
            \A k \in 1..Len(cleanJsonl[n].data.images) :
                LET ref == cleanJsonl[n].data.images[k] IN
                /\ ref.file_name \in DOMAIN cleanImg
                /\ cleanImg[ref.file_name].from = ref.original_url
                /\ cleanImg[ref.file_name].kind \in {"image", "garbage"}

\* C21 (as claimed): when run_scraper returns, every file that a record of the raw
\* stream references is in the raw image directory and holds the bytes that were
\* downloaded from the reference's own original_url.
C21_NoNameCollision ==
    (source \in Scrapers /\ FetchStageOver /\ pc = "clean") =>
        \A n \in 1..Len(rawJsonl) :
            \A k \in 1..Len(rawJsonl[n].data.images) :
                LET ref == rawJsonl[n].data.images[k] IN
                /\ ref.file_name \in DOMAIN rawImg
                /\ rawImg[ref.file_name].from = ref.original_url


=============================================================================
